---- MODULE Spec2Model ----
(***************************************************************************)
(* Model of qtek's glTF loader (src/src/loader/GLTF.js): parse() issues    *)
(* one asynchronous fetch per declared buffer; the callback of the fetch   *)
(* that brings the pending counter to zero runs afterLoadBuffer, the       *)
(* synchronous pipeline textures -> materials -> meshes -> nodes -> scene  *)
(* attachment -> skins -> animations -> success event.                     *)
(*                                                                         *)
(* JavaScript values are encoded with one TLA+ type per field:             *)
(*   - an object used as a name-keyed table is a sequence of records with  *)
(*     an `id` field, in insertion order (the order for-in visits);        *)
(*   - an optional field is a sequence of length 0 (undefined / null) or 1;*)
(*   - an object reference that can be undefined is an index into `heap`,  *)
(*     0 standing for undefined;                                           *)
(*   - an uncaught exception (TypeError on a property of undefined,        *)
(*     RangeError of a typed-array constructor) sets `thrown` and ends the *)
(*     handler; what was mutated before the throw stays mutated.           *)
(***************************************************************************)
EXTENDS Integers, Sequences, FiniteSets, TLC

\* ------------------------------------------------------------------ bounds
\* Largest number of buffers a document of the model declares.
MaxBuffers == 2
\* Number of parse() calls made on the loader.
MaxParses == 2
\* Number of 32-bit words a fetched buffer holds.
BufWords == 48

\* -------------------------------------------------------- program constants
FLOAT_VEC2 == 35664
FLOAT_VEC3 == 35665
FLOAT_VEC4 == 35666
FLOAT == 5126
UNSIGNED_INT == 5125

\* ----------------------------------------------------------------- tables
IndexOf(tbl, id) ==
    IF \E i \in 1..Len(tbl) : tbl[i].id = id
    THEN CHOOSE i \in 1..Len(tbl) : tbl[i].id = id
    ELSE 0

Has(tbl, id) == IndexOf(tbl, id) # 0

Get(tbl, id) == tbl[IndexOf(tbl, id)]

\* tbl[e.id] = e : an existing key keeps its place, a new key is appended.
Put(tbl, e) ==
    IF Has(tbl, e.id) THEN [tbl EXCEPT ![IndexOf(tbl, e.id)] = e]
    ELSE Append(tbl, e)

Max(a, b) == IF a >= b THEN a ELSE b

\* var x = v; K(x) : binds a value once for the expression that follows.
Bind(v, K(_)) == K(v)


\* -------------------------------------------------------------- documents
\* A uniform value of a material's `values` table: a string (a texture
\* name), a texture object (gen = the parse call that created it), null,
\* an array (a colour) or a number.
Val(tag, ref, gen) == [tag |-> tag, ref |-> ref, gen |-> gen]

StrVal(name) == Val("string", name, 0)

\* An accessor descriptor.  componentType = 0 stands for an absent
\* componentType; `type` is a number (typeNum, typeStr = "") in the legacy
\* schema and a string (typeStr) in the current one.
Acc(id, bv, off, ct, tn, ts, n) ==
    [id |-> id, bufferView |-> bv, byteOffset |-> off, componentType |-> ct,
     typeNum |-> tn, typeStr |-> ts, count |-> n]

BufName == <<"b1", "b2", "b3", "b4">>

\* The buffer the animation / skin data lives in: the last declared one.
LastBuf(nb) == IF nb = 0 THEN "b1" ELSE BufName[nb]

Variants ==
    {"ok", "legacy", "plainMesh", "noAnim", "noTime", "sameTarget",
     "danglingAccessor", "danglingBufferView", "danglingMaterial",
     "danglingMesh", "danglingChild", "danglingTarget", "outOfBounds",
     "unmatchedJoint", "twoSkins", "precedence", "badCamera", "sharedChild",
     "unmatchedRoot", "sameSkin", "unsupportedType"}

DocAccessors(v) ==
    \* unsupportedType: legacy accessors, the weights of a type (35674,
    \* FLOAT_MAT2) the switch at lines 652-672 has no case for
    LET leg == v \in {"legacy", "unsupportedType"} IN
    << Acc("aPos", IF v = "danglingBufferView" THEN "nope" ELSE "bv1", 0,
           IF leg THEN 0 ELSE FLOAT, IF leg THEN FLOAT_VEC3 ELSE 0,
           IF leg THEN "" ELSE "VEC3", 2),
       Acc("aWgt", "bv1", 24,
           IF leg THEN 0 ELSE FLOAT,
           CASE v = "unsupportedType" -> 35674
             [] leg -> FLOAT_VEC4
             [] OTHER -> 0,
           IF leg THEN "" ELSE "VEC4", 2),
       Acc("aIdx", "bv1", 56, 5123, 0, "SCALAR",
           IF v = "outOfBounds" THEN 100 ELSE 3),
       Acc("aTime", "bv2", 0, 0, FLOAT, "", 2),
       Acc("aRot", "bv2", 8, 0, FLOAT_VEC4, "", 2),
       Acc("aTime2", "bv2", 40, 0, FLOAT, "", 3),
       Acc("aTrans", "bv2", 52, 0, FLOAT_VEC3, "", 3) >>

DocMaterials(v) ==
    LET vals == << [id |-> "diffuse", value |-> StrVal("tex1")],
                   [id |-> "normalMap", value |-> StrVal("texMissing")],
                   [id |-> "shininess", value |-> Val("number", "", 0)] >>
    IN IF v = "legacy"
       THEN << [id |-> "mat1", name |-> "mat1",
                instanceTechnique |->
                    << [technique |-> <<"tech1">>, values |-> <<vals>>] >>,
                technique |-> <<>>, values |-> <<>>] >>
       ELSE << [id |-> "mat1", name |-> "mat1", instanceTechnique |-> <<>>,
                technique |-> <<"tech1">>, values |-> <<vals>>] >>

DocTechniques(v) ==
    LET pass == [id |-> "defaultPass", states |-> <<[blendEnable |-> TRUE]>>]
    IN IF v = "legacy"
       THEN << [id |-> "tech1", passes |-> <<pass>>, pass |-> "defaultPass",
                states |-> <<>>] >>
       ELSE << [id |-> "tech1", passes |-> <<>>, pass |-> "",
                states |-> <<[blendEnable |-> FALSE]>>] >>

DocMeshes(v) ==
    << [id |-> "mesh1", name |-> "mesh1",
        primitives |->
          << [attributes |->
                << [id |-> "POSITION",
                    accessor |-> IF v = "danglingAccessor" THEN "nope"
                                 ELSE "aPos"],
                   [id |-> "WEIGHT", accessor |-> "aWgt"],
                   [id |-> "TANGENT", accessor |-> "aPos"] >>,
              indices |-> "aIdx",
              material |-> IF v = "danglingMaterial" THEN "nope"
                           ELSE "mat1"] >>] >>

NodeInfo(id, children, camera, lights, meshes, skin, jointId, xform) ==
    [id |-> id, name |-> id, children |-> children, camera |-> camera,
     lights |-> lights, meshes |-> meshes, instanceSkin |-> skin,
     jointId |-> jointId, xform |-> xform]

DocNodes(v) ==
    LET meshKey == IF v = "danglingMesh" THEN "nope" ELSE "mesh1"
        skin == [skin |-> "skin1",
                 skeletons |-> IF v = "unmatchedRoot" THEN <<"root">>
                               ELSE <<"j1">>,
                 sources |-> <<meshKey>>]
        skin2 == [skin |-> "skin2", skeletons |-> <<"j2">>,
                  sources |-> <<meshKey>>]
        both == v = "precedence"
    IN << NodeInfo("root",
                   CASE v = "danglingChild" ->
                           <<"j1", "m1", "nope", "cam", "lgt">>
                     [] v = "sharedChild" -> <<"j1", "m1", "cam", "lgt", "j2">>
                     [] OTHER -> <<"j1", "m1", "cam", "lgt">>,
                   <<>>, <<>>, <<>>, <<>>, "", "trs"),
          NodeInfo("j1", IF v = "unmatchedJoint" THEN <<"mid">> ELSE <<"j2">>,
                   <<>>, <<>>, <<>>, <<>>, "jA", "matrix"),
          NodeInfo("j2", <<>>, <<>>, <<>>, <<>>, <<>>, "jB", "trs"),
          IF v = "plainMesh"
          THEN NodeInfo("m1", <<>>, <<>>, <<>>, << <<meshKey>> >>, <<>>, "",
                        "none")
          ELSE NodeInfo("m1", <<>>, <<>>, <<>>, <<>>, <<skin>>, "", "none"),
          NodeInfo("cam", <<>>, <<"cam1">>,
                   IF both THEN << <<"l1">> >> ELSE <<>>,
                   IF both THEN << <<meshKey>> >> ELSE <<>>,
                   <<>>, "", "matrix"),
          NodeInfo("lgt", <<>>, <<>>, << <<"l1">> >>,
                   IF both THEN << <<meshKey>> >> ELSE <<>>,
                   <<>>, "", "trs") >>
       \o (CASE v = "unmatchedJoint" ->
                  << NodeInfo("mid", <<"j2">>, <<>>, <<>>, <<>>, <<>>, "",
                              "none") >>
             [] v = "twoSkins" ->
                  << NodeInfo("m2", <<>>, <<>>, <<>>, <<>>, <<skin2>>, "",
                              "none") >>
             [] v = "sameSkin" ->
                  << NodeInfo("m2", <<>>, <<>>, <<>>, <<>>, <<skin>>, "",
                              "none") >>
             [] OTHER -> <<>>)

DocSkins(v) ==
    IF v = "plainMesh" THEN <<>>
    ELSE << [id |-> "skin1", joints |-> <<"jA", "jB">>,
             inverseBindMatrices |->
                << [bufferView |-> "bv2", byteOffset |-> 0, count |-> 2] >>] >>
         \o (IF v = "twoSkins"
             THEN << [id |-> "skin2", joints |-> <<"jB">>,
                      inverseBindMatrices |-> <<>>] >>
             ELSE <<>>)

Param(name, accessor) == [id |-> name, accessor |-> accessor]

DocAnimations(v) ==
    IF v = "noAnim" THEN <<>>
    ELSE << [id |-> "anim1",
             parameters |->
                IF v = "noTime" THEN << Param("rotation", "aRot") >>
                ELSE << Param("TIME", "aTime"), Param("rotation", "aRot") >>,
             channels |->
                << [target |-> IF v = "danglingTarget" THEN "nope"
                               ELSE "j1"] >>],
            [id |-> "anim2",
             parameters |->
                << Param("TIME", "aTime2"), Param("translation", "aTrans") >>,
             channels |->
                << [target |-> IF v = "sameTarget" THEN "j1" ELSE "j2"] >>],
            [id |-> "anim3",
             parameters |-> << Param("TIME", "aTime") >>,
             channels |-> <<>>] >>

\* The document of variant v declaring nb buffers.
Doc(nb, v) ==
    [buffers |-> [i \in 1..nb |-> [id |-> BufName[i]]],
     bufferViews |->
        << [id |-> "bv1", buffer |-> "b1", byteOffset |-> 0],
           [id |-> "bv2", buffer |-> LastBuf(nb), byteOffset |-> 64] >>,
     accessors |-> DocAccessors(v),
     samplers |-> << [id |-> "s1"] >>,
     images |-> << [id |-> "img1"] >>,
     textures |->
        << [id |-> "tex1", sampler |-> "s1", source |-> "img1",
            targetNum |-> IF v = "legacy" THEN 0 ELSE 3553,
            targetStr |-> IF v = "legacy" THEN "TEXTURE_2D" ELSE ""],
           [id |-> "texCube", sampler |-> "s1", source |-> "img1",
            targetNum |-> 34067, targetStr |-> ""] >>,
     techniques |-> DocTechniques(v),
     materials |-> DocMaterials(v),
     meshes |-> DocMeshes(v),
     cameras |-> << [id |-> "cam1",
                     projection |-> IF v = "badCamera" THEN "fisheye"
                                    ELSE "perspective"] >>,
     lights |-> << [id |-> "l1", type |-> "point"] >>,
     nodes |-> DocNodes(v),
     skins |-> DocSkins(v),
     animations |-> DocAnimations(v),
     scenes |-> << [id |-> "scene1", nodes |-> <<"root">>] >>,
     scene |-> "scene1"]

Documents == {Doc(nb, v) : nb \in 0..MaxBuffers, v \in Variants}


\* ------------------------------------------------------------ typed arrays
\* A 32-bit word of a buffer holds an integer standing for the float32
\* stored there.  NaN stands for the float NaN.
NaN == -(2^30)

\* What the transport delivers for a buffer: BufWords words, all distinct.
FetchedWords == [i \in 1..BufWords |-> i]

ByteLength(buffer) == 4 * Len(buffer.words)

\* Bytes per element of a typed-array constructor ("" = undefined).
Width(ctor) ==
    CASE ctor \in {"Int8Array", "Uint8Array"} -> 1
      [] ctor \in {"Int16Array", "Uint16Array"} -> 2
      [] ctor \in {"Float32Array", "Uint32Array"} -> 4
      [] OTHER -> 0

\* A typed array: a view on buffer `buf` (elements off, off+w, ...) or, when
\* buf = "", an array owning `data`.
View(ctor, buf, off, len) ==
    [ctor |-> ctor, buf |-> buf, off |-> off, len |-> len, data |-> <<>>]

Owned(ctor, data) ==
    [ctor |-> ctor, buf |-> "", off |-> 0, len |-> Len(data), data |-> data]

NullArray == View("", "", 0, 0)

\* The value of the element at byte address a of a buffer, read through
\* ctor: the float for a 4-byte element, else a number identifying the bytes.
ReadBuf(words, ctor, a) ==
    IF Width(ctor) = 4 THEN words[(a \div 4) + 1]
    ELSE words[(a \div 4) + 1] * 4 + (a % 4)

\* arr[k] as JavaScript reads it; `undef` is what an out-of-range read
\* gives (the caller's encoding of undefined).
ReadElem(buffers, arr, k, undef) ==
    IF k < 0 \/ k >= arr.len THEN undef
    ELSE IF arr.buf = "" THEN arr.data[k + 1]
    ELSE ReadBuf(Get(buffers, arr.buf).words, arr.ctor,
                 arr.off + k * Width(arr.ctor))

\* What storing undefined into a typed array stores: NaN in a float array,
\* 0 in an integer one.
UndefinedIn(ctor) == IF ctor = "Float32Array" THEN NaN ELSE 0

\* buffers after arr[k] = v, for a Float32Array view arr on a buffer; a
\* write outside the view is ignored.
WriteElem(buffers, arr, k, v) ==
    IF k < 0 \/ k >= arr.len \/ arr.buf = "" THEN buffers
    ELSE LET b == Get(buffers, arr.buf)
             w == (arr.off \div 4) + k + 1
         IN Put(buffers, [b EXCEPT !.words[w] = v])

\* new ArrayCtor(buffer, byteOffset, length), buffer = lib.buffers[bufId].
\* err = "TypeError": ArrayCtor is undefined; "RangeError": the offset is
\* not a multiple of the element size or the view passes the buffer's end.
\* An undefined buffer makes the constructor take its first argument as a
\* length of 0: the result is an empty array, the other arguments unused.
NewView(buffers, ctor, bufId, byteOffset, length) ==
    IF ctor = "" THEN [err |-> "TypeError", arr |-> NullArray]
    ELSE IF ~Has(buffers, bufId) THEN [err |-> "", arr |-> Owned(ctor, <<>>)]
    ELSE IF byteOffset % Width(ctor) # 0
            \/ byteOffset + length * Width(ctor)
                 > ByteLength(Get(buffers, bufId))
         THEN [err |-> "RangeError", arr |-> NullArray]
    ELSE [err |-> "", arr |-> View(ctor, bufId, byteOffset, length)]

\* --------------------------------------------------------- parse-local state
\* The state one parse call works on: the document it was given (json), the
\* lib tables of its closure, the entities it created (heap) and the
\* function-scoped variables that outlive a loop iteration.
\*   decoded : one entry per typed array built from an accessor
\*   thrown  : an exception left the handler at `at`
Ent(kind, name) ==
    [kind |-> kind, name |-> name, nameIndex |-> -1, parent |-> 0,
     children |-> <<>>, xform |-> "", attrs |-> <<>>, indices |-> NullArray,
     material |-> <<>>, skeleton |-> "", joints |-> <<>>, updated |-> 0]

NewState(json, gen, hasRoot) ==
    [json |-> json, gen |-> gen,
     buffers |-> <<>>, textures |-> <<>>, materials |-> <<>>,
     meshes |-> <<>>, nodes |-> <<>>, skeletons |-> <<>>, cameras |-> <<>>,
     clips |-> <<>>, hasClips |-> FALSE, skinningClip |-> <<>>,
     heap |-> << Ent(IF hasRoot THEN "Node" ELSE "Scene", "") >>,
     size |-> 0, ctor |-> "", animSize |-> 0, node |-> 0,
     haveInvBindMatrices |-> FALSE,
     decoded |-> <<>>, warnings |-> 0, thrown |-> FALSE, at |-> ""]

\* The root node of a parse call is the first entity it creates.
RootRef == 1

Throw(s, where) == [s EXCEPT !.thrown = TRUE, !.at = where]

Alloc(s, ent) == [s EXCEPT !.heap = Append(@, ent)]

\* The record of one accessor decode, for the claims about views.
Decoded(site, acc, bv, size, arr) ==
    [site |-> site, accessor |-> acc, bufferView |-> bv, size |-> size,
     arr |-> arr]


\* ---------------------------------------------------------- _parseTextures
TEXTURE_2D == 3553
TEXTURE_CUBE_MAP == 34067

\* glenum[name] for the target names a legacy document uses (0 = undefined).
GlEnum(name) ==
    CASE name = "TEXTURE_2D" -> TEXTURE_2D
      [] name = "TEXTURE_CUBE_MAP" -> TEXTURE_CUBE_MAP
      [] OTHER -> 0

RECURSIVE ParseTexturesFrom(_, _)
ParseTexturesFrom(s, i) ==
    IF s.thrown \/ i > Len(s.json.textures) THEN s
    ELSE LET info == s.json.textures[i]
             target == IF info.targetStr # "" THEN GlEnum(info.targetStr)
                       ELSE info.targetNum
         IN IF ~Has(s.json.samplers, info.sampler)
            THEN Throw(s, "461: samplerInfo[name]")
            ELSE IF target = TEXTURE_2D
            THEN IF ~Has(s.json.images, info.source)
                 THEN Throw(s, "483: imageInfo.path")
                 ELSE ParseTexturesFrom(
                        [s EXCEPT !.textures =
                            Put(@, [id |-> info.id, gen |-> s.gen])], i + 1)
            ELSE ParseTexturesFrom(s, i + 1)

ParseTextures(s) == ParseTexturesFrom(s, 1)

\* --------------------------------------------------------- _parseMaterials
\* techniques[name]: the technique's selected pass (legacy) or the technique
\* itself; `defined` is false when the selected pass does not exist.
TechniqueTable(json) ==
    [i \in 1..Len(json.techniques) |->
        LET t == json.techniques[i]
        IN IF t.passes # <<>>
           THEN IF Has(t.passes, t.pass)
                THEN [id |-> t.id, defined |-> TRUE,
                      states |-> Get(t.passes, t.pass).states]
                ELSE [id |-> t.id, defined |-> FALSE, states |-> <<>>]
           ELSE [id |-> t.id, defined |-> TRUE, states |-> t.states]]

\* Lines 516-521: the keys of instanceTechnique are copied onto the material
\* descriptor itself, and instanceTechnique is set to null.
MergeInstanceTechnique(info) ==
    IF info.instanceTechnique # <<>>
    THEN [info EXCEPT !.technique = info.instanceTechnique[1].technique,
                      !.values = info.instanceTechnique[1].values,
                      !.instanceTechnique = <<>>]
    ELSE info

\* Lines 526-537: a string uniform is overwritten, in the document's own
\* values table, by the texture of that name or by null.
ResolveUniform(textures, u) ==
    IF u.value.tag = "string"
    THEN IF Has(textures, u.value.ref)
         THEN [u EXCEPT !.value =
                  Val("texture", u.value.ref, Get(textures, u.value.ref).gen)]
         ELSE [u EXCEPT !.value = Val("null", "", 0)]
    ELSE u

ResolveUniforms(textures, uniforms) ==
    [k \in 1..Len(uniforms) |-> ResolveUniform(textures, uniforms[k])]

\* uniforms[symbol], null when the table has no such key.
Uniform(uniforms, symbol) ==
    IF Has(uniforms, symbol) THEN Get(uniforms, symbol).value
    ELSE Val("null", "", 0)

NewMaterial(info, uniforms, states) ==
    [id |-> info.id, name |-> info.name,
     transparent |-> states.blendEnable,
     diffuse |-> Uniform(uniforms, "diffuse"),
     normalMap |-> Uniform(uniforms, "normalMap"),
     isDefault |-> FALSE, jointCount |-> 0]

\* Lines 538-619: the material entity, from the resolved uniforms and the
\* technique's states; technique or technique.states undefined throws.
BuildMaterial(s, techniques, merged, uniforms) ==
    IF merged.technique = <<>> \/ ~Has(techniques, merged.technique[1])
    THEN Throw(s, "558: technique.states")
    ELSE Bind(Get(techniques, merged.technique[1]), LAMBDA technique :
         IF ~technique.defined THEN Throw(s, "558: technique.states")
         ELSE IF technique.states = <<>>
         THEN Throw(s, "558: technique.states.depthMask")
         ELSE [s EXCEPT !.materials =
                  Put(@, NewMaterial(merged, uniforms, technique.states[1]))])

\* Lines 511-619 for material i, whose descriptor after the merge is
\* `merged`: the merge and the resolved uniforms are written to the document.
ParseMaterial(s, techniques, i, merged) ==
    IF merged.values = <<>>
    THEN Throw([s EXCEPT !.json.materials[i] = merged],
               "539: uniforms['diffuse']")
    ELSE Bind(ResolveUniforms(s.textures, merged.values[1]), LAMBDA uniforms :
         BuildMaterial(
            [s EXCEPT !.json.materials[i] =
                         [merged EXCEPT !.values = <<uniforms>>]],
            techniques, merged, uniforms))

RECURSIVE ParseMaterialsFrom(_, _, _)
ParseMaterialsFrom(s, techniques, i) ==
    IF s.thrown \/ i > Len(s.json.materials) THEN s
    ELSE ParseMaterialsFrom(
            ParseMaterial(s, techniques, i,
                          MergeInstanceTechnique(s.json.materials[i])),
            techniques, i + 1)

ParseMaterials(s) == ParseMaterialsFrom(s, TechniqueTable(s.json), 1)

\* ------------------------------------------------------------ _parseMeshes
\* semanticAttributeMap ("" = no such key).
SemanticAttributeMap(semantic) ==
    CASE semantic = "NORMAL" -> "normal"
      [] semantic = "POSITION" -> "position"
      [] semantic = "TEXCOORD_0" -> "texcoord0"
      [] semantic = "TEXCOORD_1" -> "texcoord1"
      [] semantic = "WEIGHT" -> "weight"
      [] semantic = "JOINT" -> "joint"
      [] semantic = "COLOR" -> "color"
      [] OTHER -> ""

\* Lines 648-693: the element type and component count of an attribute.
\* `size` and `ArrayCtor` are function-scoped: a legacy accessor of an
\* unsupported type leaves both as the previous attribute set them.
\* size = 0 stands for undefined (count * undefined is NaN, a length of 0).
AttributeLayout(acc, size, ctor) ==
    IF acc.componentType = 0
    THEN CASE acc.typeStr = "" /\ acc.typeNum = FLOAT_VEC2 ->
                [size |-> 2, ctor |-> "Float32Array", warn |-> 0]
           [] acc.typeStr = "" /\ acc.typeNum = FLOAT_VEC3 ->
                [size |-> 3, ctor |-> "Float32Array", warn |-> 0]
           [] acc.typeStr = "" /\ acc.typeNum = FLOAT_VEC4 ->
                [size |-> 4, ctor |-> "Float32Array", warn |-> 0]
           [] acc.typeStr = "" /\ acc.typeNum = FLOAT ->
                [size |-> 1, ctor |-> "Float32Array", warn |-> 0]
           [] OTHER -> [size |-> size, ctor |-> ctor, warn |-> 1]
    ELSE [size |-> CASE acc.typeStr = "SCALAR" -> 1
                     [] acc.typeStr = "VEC2" -> 2
                     [] acc.typeStr = "VEC3" -> 3
                     [] acc.typeStr = "VEC4" -> 4
                     [] acc.typeStr = "MAT2" -> 4
                     [] acc.typeStr = "MAT3" -> 9
                     [] acc.typeStr = "MAT4" -> 16
                     [] OTHER -> 0,
          ctor |-> CASE acc.componentType = 5120 -> "Int8Array"
                     [] acc.componentType = 5121 -> "Uint8Array"
                     [] acc.componentType = 5122 -> "Int16Array"
                     [] acc.componentType = 5123 -> "Uint16Array"
                     [] OTHER -> "Float32Array",
          warn |-> 0]

\* A copy that keeps the source's stride: the first count * 3 elements.
CopyWeights(buffers, attributeArray, count) ==
    Owned(attributeArray.ctor,
          [j \in 1..(count * 3) |->
              ReadElem(buffers, attributeArray, j - 1,
                       UndefinedIn(attributeArray.ctor))])

\* Lines 704-709: the compacted copy of a 4-component weight array.
CompactWeights(buffers, attributeArray, count) ==
    Owned(attributeArray.ctor,
          [j \in 1..(count * 3) |->
              ReadElem(buffers, attributeArray,
                       ((j - 1) \div 3) * 4 + ((j - 1) % 3),
                       UndefinedIn(attributeArray.ctor))])

\* Lines 702-714: the array stored in the geometry's attribute.
AttributeValue(buffers, semantic, size, attributeArray, count) ==
    IF semantic = "WEIGHT" /\ size = 4
    THEN CompactWeights(buffers, attributeArray, count)
    ELSE attributeArray

\* Lines 695-714 for one attribute whose accessor `acc` exists and whose
\* layout is `lay`; r = [s, attrs, indices]: the parse state, the
\* geometry's attribute table and its index array so far.
DecodeAttribute(r, attribute, acc, lay) ==
    Bind([r.s EXCEPT !.size = lay.size, !.ctor = lay.ctor,
                     !.warnings = @ + lay.warn], LAMBDA s :
    IF ~Has(s.json.bufferViews, acc.bufferView)
    THEN [r EXCEPT !.s = Throw(s, "696: bufferViewInfo.buffer")]
    ELSE Bind(Get(s.json.bufferViews, acc.bufferView), LAMBDA bv :
         Bind(NewView(s.buffers, lay.ctor, bv.buffer,
                      bv.byteOffset + acc.byteOffset, acc.count * lay.size),
              LAMBDA nv :
         IF nv.err # ""
         THEN [r EXCEPT !.s = Throw(s, "701: new ArrayCtor")]
         ELSE [r EXCEPT
                 !.s = [s EXCEPT !.decoded =
                          Append(@, Decoded("attribute", acc, bv, lay.size,
                                            nv.arr))],
                 !.attrs =
                    Put(@, [id |-> SemanticAttributeMap(attribute.id),
                            semantic |-> attribute.id,
                            accessor |-> acc,
                            source |-> nv.arr,
                            value |-> AttributeValue(s.buffers, attribute.id,
                                                     lay.size, nv.arr,
                                                     acc.count)])])))

\* Lines 641-726 for one attribute of a primitive.
ParseAttribute(r, attribute) ==
    IF SemanticAttributeMap(attribute.id) = "" THEN r
    ELSE IF ~Has(r.s.json.accessors, attribute.accessor)
    THEN [r EXCEPT !.s = Throw(r.s, "648: attributeInfo.componentType")]
    ELSE Bind(Get(r.s.json.accessors, attribute.accessor), LAMBDA acc :
         DecodeAttribute(r, attribute, acc,
                         AttributeLayout(acc, r.s.size, r.s.ctor)))

RECURSIVE ParseAttributesFrom(_, _, _)
ParseAttributesFrom(r, attributes, k) ==
    IF r.s.thrown \/ k > Len(attributes) THEN r
    ELSE ParseAttributesFrom(ParseAttribute(r, attributes[k]), attributes,
                             k + 1)

\* Lines 731-741 for an index accessor that exists; r = [s, attrs, indices].
DecodeIndices(r, acc) ==
    IF ~Has(r.s.json.bufferViews, acc.bufferView)
    THEN [r EXCEPT !.s = Throw(r.s, "732: bufferViewInfo.buffer")]
    ELSE Bind(Get(r.s.json.bufferViews, acc.bufferView), LAMBDA bv :
         Bind(NewView(r.s.buffers,
                      IF acc.componentType = UNSIGNED_INT THEN "Uint32Array"
                      ELSE "Uint16Array",
                      bv.buffer, bv.byteOffset + acc.byteOffset, acc.count),
              LAMBDA nv :
         IF nv.err # ""
         THEN [r EXCEPT !.s = Throw(r.s, "737-740: new index array")]
         ELSE [r EXCEPT !.s.decoded =
                           Append(@, Decoded("indices", acc, bv, 1, nv.arr)),
                        !.indices = nv.arr]))

\* Lines 729-741: the index array of a primitive.
ParseIndices(r, primitiveInfo) ==
    IF r.s.thrown THEN r
    ELSE IF ~Has(r.s.json.accessors, primitiveInfo.indices)
    THEN [r EXCEPT !.s = Throw(r.s, "731: indicesInfo.bufferView")]
    ELSE DecodeIndices(r, Get(r.s.json.accessors, primitiveInfo.indices))

\* The material substituted for a primitive whose material id names nothing.
DefaultMaterial ==
    [id |-> "", name |-> "", transparent |-> FALSE,
     diffuse |-> Val("null", "", 0), normalMap |-> Val("null", "", 0),
     isDefault |-> TRUE, jointCount |-> 0]

\* Lines 743-749.
PrimitiveMaterial(s, primitiveInfo) ==
    IF Has(s.materials, primitiveInfo.material)
    THEN Get(s.materials, primitiveInfo.material)
    ELSE DefaultMaterial

\* Lines 750-770: the mesh entity of primitive pp, pushed to lib.meshes[name].
PushMesh(r, meshInfo, pp, material) ==
    IF r.s.thrown THEN r.s
    ELSE [r.s EXCEPT
            !.heap = Append(@,
               [Ent("Mesh", meshInfo.name) EXCEPT
                  !.nameIndex = IF meshInfo.name # ""
                                   /\ Len(meshInfo.primitives) > 1
                                THEN pp ELSE -1,
                  !.attrs = r.attrs,
                  !.indices = r.indices,
                  !.material = <<material>>]),
            !.meshes[IndexOf(r.s.meshes, meshInfo.id)].prims =
                Append(@, Len(r.s.heap) + 1)]

\* Lines 633-771: primitive pp (0-based) of mesh descriptor meshInfo.
ParsePrimitive(s, meshInfo, pp) ==
    Bind(ParseIndices(
            ParseAttributesFrom(
               [s |-> s, attrs |-> <<>>, indices |-> NullArray],
               meshInfo.primitives[pp + 1].attributes, 1),
            meshInfo.primitives[pp + 1]),
         LAMBDA r :
            PushMesh(r, meshInfo, pp,
                     PrimitiveMaterial(r.s, meshInfo.primitives[pp + 1])))

RECURSIVE ParsePrimitivesFrom(_, _, _)
ParsePrimitivesFrom(s, meshInfo, pp) ==
    IF s.thrown \/ pp >= Len(meshInfo.primitives) THEN s
    ELSE ParsePrimitivesFrom(ParsePrimitive(s, meshInfo, pp), meshInfo, pp + 1)

RECURSIVE ParseMeshesFrom(_, _)
ParseMeshesFrom(s, nn) ==
    IF s.thrown \/ nn > Len(s.json.meshes) THEN s
    ELSE ParseMeshesFrom(
            ParsePrimitivesFrom(
               [s EXCEPT !.meshes =
                   Put(@, [id |-> s.json.meshes[nn].id, prims |-> <<>>])],
               s.json.meshes[nn], 0),
            nn + 1)

ParseMeshes(s) == ParseMeshesFrom(s, 1)

\* ------------------------------------------------------------- _parseNodes
\* lib.nodes[id] (0 = undefined: no such key, or undefined stored there).
NodeRef(s, id) == IF Has(s.nodes, id) THEN Get(s.nodes, id).ref ELSE 0

\* Node.add(child) on the entity `parent`: the child leaves the children
\* list of its previous parent and is appended to this one's.
NodeAdd(heap, parent, child) ==
    IF heap[child].parent = parent THEN heap
    ELSE [k \in 1..Len(heap) |->
            IF k = child /\ k = parent
            THEN [heap[k] EXCEPT !.parent = parent,
                                 !.children = Append(@, child)]
            ELSE IF k = child THEN [heap[k] EXCEPT !.parent = parent]
            ELSE IF k = parent
            THEN [heap[k] EXCEPT !.children = Append(@, child)]
            ELSE IF k = heap[child].parent
            THEN [heap[k] EXCEPT !.children =
                     SelectSeq(@, LAMBDA c : c # child)]
            ELSE heap[k]]

\* node.setName(name)
SetName(heap, ref, name) ==
    [heap EXCEPT ![ref].name = name, ![ref].nameIndex = -1]

\* _parseLight: the light entity kind for a light descriptor ("" = the type
\* is not supported, a warning is logged and undefined returned).
LightKind(lightInfo) ==
    CASE lightInfo.type = "point" -> "PointLight"
      [] lightInfo.type = "spot" -> "SpotLight"
      [] lightInfo.type = "directional" -> "DirectionalLight"
      [] OTHER -> ""

\* Lines 803-807 for one light id; r = [s, lights].
ParseLight(r, id, kind) ==
    IF kind = "" THEN [r EXCEPT !.s.warnings = @ + 1]
    ELSE [s |-> Alloc(r.s, Ent(kind, id)),
          lights |-> Append(r.lights, Len(r.s.heap) + 1)]

\* Lines 801-808: the lights of a node, created in order.
RECURSIVE ParseLightsFrom(_, _, _)
ParseLightsFrom(r, ids, i) ==
    IF r.s.thrown \/ i > Len(ids) THEN r
    ELSE IF ~Has(r.s.json.lights, ids[i])
    THEN [r EXCEPT !.s = Throw(r.s, "898: lightInfo.type")]
    ELSE ParseLightsFrom(
            ParseLight(r, ids[i], LightKind(Get(r.s.json.lights, ids[i]))),
            ids, i + 1)

RECURSIVE AddAll(_, _, _, _)
AddAll(heap, parent, refs, i) ==
    IF i > Len(refs) THEN heap
    ELSE AddAll(NodeAdd(heap, parent, refs[i]), parent, refs, i + 1)

\* new Node(); node.setName(name): the state with the entity allocated and
\* assigned to `node`.
NewNode(s, kind, name) ==
    [s EXCEPT !.heap = Append(@, Ent(kind, name)), !.node = Len(s.heap) + 1]

\* Lines 781-799: the camera variant.
CameraVariant(s, nodeInfo) ==
    IF ~Has(s.json.cameras, nodeInfo.camera[1])
    THEN Throw(s, "783: cameraInfo.projection")
    ELSE Bind(Get(s.json.cameras, nodeInfo.camera[1]).projection
                 = "perspective", LAMBDA persp :
         [NewNode(s, IF persp THEN "PerspectiveCamera"
                     ELSE "OrthographicCamera", nodeInfo.name)
            EXCEPT !.warnings = @ + (IF persp THEN 0 ELSE 1),
                   !.cameras = Put(@, [id |-> nodeInfo.name,
                                       ref |-> Len(s.heap) + 1])])

\* Lines 809-820: one light replaces the node, any other number is wrapped
\* in a container; r = [s, lights] as ParseLightsFrom left it.
LightVariant(r, nodeInfo) ==
    IF r.s.thrown THEN r.s
    ELSE IF Len(r.lights) = 1
    THEN [r.s EXCEPT !.node = r.lights[1],
                     !.heap = SetName(@, r.lights[1], nodeInfo.name)]
    ELSE [NewNode(r.s, "Node", nodeInfo.name)
            EXCEPT !.heap = AddAll(@, Len(r.s.heap) + 1, r.lights, 1)]

\* Line 844: primitives[j].skeleton = nodeInfo.instanceSkin.skin
MarkSkeleton(heap, primitives, nodeInfo) ==
    [k \in 1..Len(heap) |->
        IF nodeInfo.instanceSkin # <<>>
           /\ \E j \in 1..Len(primitives) : primitives[j] = k
        THEN [heap[k] EXCEPT !.skeleton = nodeInfo.instanceSkin[1].skin]
        ELSE heap[k]]

\* Lines 832-849: the mesh variant for the primitives of an existing mesh.
MeshVariant(s, nodeInfo, primitives) ==
    IF Len(primitives) = 1
    THEN [s EXCEPT !.node = primitives[1],
                   !.heap = SetName(@, primitives[1], nodeInfo.name)]
    ELSE [NewNode(s, "Node", nodeInfo.name)
            EXCEPT !.heap = AddAll(MarkSkeleton(@, primitives, nodeInfo),
                                   Len(s.heap) + 1, primitives, 1)]

\* Lines 824-830: meshKey ("" = undefined).
MeshKey(nodeInfo) ==
    IF nodeInfo.meshes # <<>>
    THEN IF nodeInfo.meshes[1] = <<>> THEN "" ELSE nodeInfo.meshes[1][1]
    ELSE IF nodeInfo.instanceSkin[1].sources = <<>> THEN ""
    ELSE nodeInfo.instanceSkin[1].sources[1]

\* Lines 780-855: the entity chosen for a node descriptor.  The result is
\* the state with s.node set: `node` is function-scoped, so a branch that
\* assigns nothing leaves the entity of the previous descriptor in it.
SelectVariant(s, o, nodeInfo) ==
    IF nodeInfo.camera # <<>> /\ o.includeCamera
    THEN CameraVariant(s, nodeInfo)
    ELSE IF nodeInfo.lights # <<>> /\ o.includeLight
    THEN LightVariant(ParseLightsFrom([s |-> s, lights |-> <<>>],
                                      nodeInfo.lights[1], 1), nodeInfo)
    ELSE IF (nodeInfo.meshes # <<>> \/ nodeInfo.instanceSkin # <<>>)
            /\ o.includeMesh
    THEN IF MeshKey(nodeInfo) = "" \/ ~Has(s.meshes, MeshKey(nodeInfo))
         THEN s
         ELSE MeshVariant(s, nodeInfo, Get(s.meshes, MeshKey(nodeInfo)).prims)
    ELSE NewNode(s, "Node", nodeInfo.name)

\* Lines 856-879: the transform of the descriptor is applied to `node` and
\* lib.nodes[name] = node.  xform records whose transform the entity has.
StoreNode(s, nodeInfo) ==
    IF s.thrown THEN s
    ELSE IF nodeInfo.xform # "none" /\ s.node = 0
    THEN Throw(s, "857: node.localTransform")
    ELSE [s EXCEPT
            !.heap = IF nodeInfo.xform # "none"
                     THEN [@ EXCEPT ![s.node].xform = nodeInfo.id]
                     ELSE @,
            !.nodes = Put(@, [id |-> nodeInfo.id, ref |-> s.node])]

\* Lines 777-880, one descriptor.
CreateNode(s, o, nodeInfo) ==
    StoreNode(SelectVariant(s, o, nodeInfo), nodeInfo)

RECURSIVE CreateNodesFrom(_, _, _)
CreateNodesFrom(s, o, i) ==
    IF s.thrown \/ i > Len(s.json.nodes) THEN s
    ELSE CreateNodesFrom(CreateNode(s, o, s.json.nodes[i]), o, i + 1)

\* A child that already has a parent stays where it is.
AttachChildOnce(s, node, child) ==
    IF node = 0 THEN Throw(s, "890: node.add")
    ELSE IF child = 0 THEN Throw(s, "890: node.add(undefined)")
    ELSE IF s.heap[child].parent # 0 THEN s
    ELSE [s EXCEPT !.heap = NodeAdd(@, node, child)]

\* Line 890: node.add(child), either of them possibly undefined.
AttachChild(s, node, child) ==
    IF node = 0 THEN Throw(s, "890: node.add")
    ELSE IF child = 0 THEN Throw(s, "890: node.add(undefined)")
    ELSE [s EXCEPT !.heap = NodeAdd(@, node, child)]

\* Lines 887-891: the children j.. of one descriptor.
RECURSIVE AttachChildrenFrom(_, _, _, _)
AttachChildrenFrom(s, node, children, j) ==
    IF s.thrown \/ j > Len(children) THEN s
    ELSE AttachChildrenFrom(AttachChild(s, node, NodeRef(s, children[j])),
                            node, children, j + 1)

\* Lines 883-893.
RECURSIVE BuildHierarchyFrom(_, _)
BuildHierarchyFrom(s, i) ==
    IF s.thrown \/ i > Len(s.json.nodes) THEN s
    ELSE BuildHierarchyFrom(
            AttachChildrenFrom(s, NodeRef(s, s.json.nodes[i].id),
                               s.json.nodes[i].children, 1), i + 1)

ParseNodes(s, o) ==
    BuildHierarchyFrom(CreateNodesFrom([s EXCEPT !.node = 0], o, 1), 1)

\* Lines 227-229 for one node of the scene.
AttachToRoot(s, node) ==
    IF node = 0 THEN Throw(s, "228: node.update")
    ELSE [s EXCEPT !.heap = NodeAdd(@, RootRef, node)]

\* Lines 225-230: the nodes of the active scene are attached to the root.
RECURSIVE AttachSceneFrom(_, _, _)
AttachSceneFrom(s, ids, i) ==
    IF s.thrown \/ i > Len(ids) THEN s
    ELSE AttachSceneFrom(AttachToRoot(s, NodeRef(s, ids[i])), ids, i + 1)

AttachScene(s) ==
    IF ~Has(s.json.scenes, s.json.scene)
    THEN Throw(s, "226: sceneInfo.nodes")
    ELSE AttachSceneFrom(s, Get(s.json.scenes, s.json.scene).nodes, 1)

\* ------------------------------------------------------------- _parseSkins
Joint(name, index, node, parentIndex, rootNode, synthetic) ==
    [name |-> name, index |-> index, node |-> node,
     parentIndex |-> parentIndex, rootNode |-> rootNode,
     synthetic |-> synthetic]

\* A joint pushed without its position in the list.
PushJointUnindexed(joints, jointId) ==
    Append(joints, Joint(jointId, 0, 0, -1, 0, FALSE))

\* Lines 316-320: the joint pushed for a skin's joint id gets
\* index = skeleton.joints.length.
PushJoint(joints, jointId) ==
    Append(joints, Joint(jointId, Len(joints), 0, -1, 0, FALSE))

\* Lines 314-321.
RECURSIVE CreateJointsFrom(_, _, _)
CreateJointsFrom(joints, jointIds, i) ==
    IF i > Len(jointIds) THEN joints
    ELSE CreateJointsFrom(PushJoint(joints, jointIds[i]), jointIds, i + 1)

\* Lines 311-313 and the fields the loader later sets on a skeleton.
\*   matrices, updates : the calls of updateMatricesSubArrays /
\*   updateJointMatrices and of update() made on it
NewSkeleton(name, joints) ==
    [id |-> name, joints |-> joints, roots |-> <<>>,
     invBindPoseMatricesArray |-> NullArray, skinMatricesLength |-> -1,
     clips |-> <<>>, relativeRootNode |-> 0,
     matrices |-> <<>>, updates |-> 0]

\* Lines 322-336, for a skin with inverse bind matrices IBMInfo: the
\* skeleton's arrays are a view on the buffer and a fresh array as long.
InverseBindMatrices(s, skeleton, IBMInfo) ==
    IF ~Has(s.json.bufferViews, IBMInfo.bufferView)
    THEN Throw(s, "327: bufferViewInfo.buffer")
    ELSE Bind(Get(s.json.bufferViews, IBMInfo.bufferView), LAMBDA bv :
         Bind(NewView(s.buffers, "Float32Array", bv.buffer,
                      IBMInfo.byteOffset + bv.byteOffset, IBMInfo.count * 16),
              LAMBDA nv :
         IF nv.err # "" THEN Throw(s, "332: new Float32Array")
         ELSE [s EXCEPT !.skeletons =
                  Put(@, [skeleton EXCEPT
                            !.invBindPoseMatricesArray = nv.arr,
                            !.skinMatricesLength = nv.arr.len])]))

\* Lines 310-337 for one skin descriptor.
CreateSkeleton(s, skinInfo, skeleton) ==
    IF skinInfo.inverseBindMatrices = <<>>
    THEN [s EXCEPT !.skeletons = Put(@, skeleton)]
    ELSE InverseBindMatrices([s EXCEPT !.haveInvBindMatrices = TRUE],
                             skeleton, skinInfo.inverseBindMatrices[1])

\* Lines 309-338: one skeleton per skin descriptor.
RECURSIVE CreateSkeletonsFrom(_, _)
CreateSkeletonsFrom(s, i) ==
    IF s.thrown \/ i > Len(s.json.skins) THEN s
    ELSE CreateSkeletonsFrom(
            CreateSkeleton(s, s.json.skins[i],
               NewSkeleton(s.json.skins[i].id,
                           CreateJointsFrom(<<>>, s.json.skins[i].joints, 1))),
            i + 1)

\* jointsMap[jointId]: the position in skeleton.joints (1-based) of the
\* last joint of that name, 0 when there is none.
JointsMap(joints, jointId) ==
    IF \E i \in 1..Len(joints) : joints[i].name = jointId
    THEN CHOOSE i \in 1..Len(joints) :
            /\ joints[i].name = jointId
            /\ \A k \in (i + 1)..Len(joints) : joints[k].name # jointId
    ELSE 0

\* A joint bound without a parent.
BoundJointAsRoot(joint, node, parentIndex, rootNode) ==
    [joint EXCEPT !.node = node, !.parentIndex = -1, !.rootNode = rootNode]

\* Lines 346-348: the fields binding sets on a joint of the skeleton.
BoundJoint(joint, node, parentIndex, rootNode) ==
    [joint EXCEPT !.node = node, !.parentIndex = parentIndex,
                  !.rootNode = rootNode]

SetJoint(s, skin, k, joint) ==
    [s EXCEPT !.skeletons[IndexOf(s.skeletons, skin)].joints[k] = joint]

\* Lines 340-367.  The result is [s, joint]: the state and the joint
\* returned.  k is jointsMap[nodeInfo.jointId] as a position, 0 for none.
RECURSIVE BindNodeToJoint(_, _, _, _, _)
RECURSIVE BindChildrenFrom(_, _, _, _, _, _)
RECURSIVE BindJoint(_, _, _, _, _, _, _)
BindJoint(s, skin, nodeInfo, node, k, parentIndex, rootNode) ==
    IF k # 0
    THEN Bind(BoundJoint(Get(s.skeletons, skin).joints[k], node, parentIndex,
                         rootNode), LAMBDA joint :
         [s |-> BindChildrenFrom(SetJoint(s, skin, k, joint), skin,
                                 nodeInfo.children, 1, joint.index, rootNode),
          joint |-> joint])
    ELSE [s |-> BindChildrenFrom(s, skin, nodeInfo.children, 1, parentIndex,
                                 rootNode),
          joint |-> Joint("", -1, node, parentIndex, rootNode, TRUE)]

BindNodeToJoint(s, skin, nodeName, parentIndex, rootNode) ==
    IF ~Has(s.json.nodes, nodeName)
    THEN [s |-> Throw(s, "343: nodeInfo.jointId"),
          joint |-> Joint("", -1, 0, -1, 0, TRUE)]
    ELSE BindJoint(s, skin, Get(s.json.nodes, nodeName),
                   NodeRef(s, nodeName),
                   JointsMap(Get(s.skeletons, skin).joints,
                             Get(s.json.nodes, nodeName).jointId),
                   parentIndex, rootNode)

BindChildrenFrom(s, skin, children, i, parentIndex, rootNode) ==
    IF s.thrown \/ i > Len(children) THEN s
    ELSE BindChildrenFrom(
            BindNodeToJoint(s, skin, children[i], parentIndex, rootNode).s,
            skin, children, i + 1, parentIndex, rootNode)

\* Lines 377-398: the mesh gets the skeleton, the joint-index list and a
\* clone of its material carrying the joint count.
EnableSkinningForMesh(s, mesh, skin, jointIndices) ==
    IF s.heap[mesh].material = <<>>
    THEN Throw(s, "381: mesh.material.shader")
    ELSE [s EXCEPT !.heap[mesh].skeleton = skin,
                   !.heap[mesh].joints = jointIndices,
                   !.heap[mesh].material[1].jointCount = Len(jointIndices)]

RECURSIVE EnableSkinningFrom(_, _, _, _, _)
EnableSkinningFrom(s, meshes, i, skin, jointIndices) ==
    IF s.thrown \/ i > Len(meshes) THEN s
    ELSE EnableSkinningFrom(
            EnableSkinningForMesh(s, meshes[i], skin, jointIndices),
            meshes, i + 1, skin, jointIndices)

\* Lines 432-434: what the walk returned is pushed to skeleton.roots (a
\* joint of the skeleton is pushed as the skeleton holds it now).
PushRoot(r, skin) ==
    IF r.s.thrown THEN r.s
    ELSE [r.s EXCEPT !.skeletons[IndexOf(r.s.skeletons, skin)].roots =
             Append(@, IF r.joint.synthetic THEN r.joint
                       ELSE Get(r.s.skeletons, skin).joints[r.joint.index + 1])]

\* Lines 427-435: the walk from each declared root.
RECURSIVE BindRootsFrom(_, _, _, _)
BindRootsFrom(s, skin, rootNodes, i) ==
    IF s.thrown \/ i > Len(rootNodes) THEN s
    ELSE BindRootsFrom(
            PushRoot(BindNodeToJoint(s, skin, rootNodes[i], -1,
                                     NodeRef(s, rootNodes[i])), skin),
            skin, rootNodes, i + 1)

\* Line 410: skeleton.joints.map(getJointIndex)
JointIndices(skeleton) ==
    [i \in 1..Len(skeleton.joints) |-> skeleton.joints[i].index]

\* Lines 409-419: skinning is enabled on the node's mesh, or on each child
\* of a node that is not a mesh.
EnableSkinning(s, node, skin, jointIndices) ==
    IF node = 0 THEN Throw(s, "416: node._children")
    ELSE EnableSkinningFrom(s, IF s.heap[node].kind = "Mesh" THEN <<node>>
                               ELSE s.heap[node].children,
                            1, skin, jointIndices)

\* instanceSkins[skinName] = skeleton
Remember(instanceSkins, skinName) ==
    IF \E i \in 1..Len(instanceSkins) : instanceSkins[i] = skinName
    THEN instanceSkins ELSE Append(instanceSkins, skinName)

\* Lines 404-436 for a descriptor with an instanceSkin; r = [s,
\* instanceSkins].
InstanceSkin(r, nodeInfo, skinName) ==
    IF ~Has(r.s.skeletons, skinName)
    THEN [r EXCEPT !.s = Throw(r.s, "410: skeleton.joints")]
    ELSE [s |-> BindRootsFrom(
                   EnableSkinning(r.s, NodeRef(r.s, nodeInfo.id), skinName,
                                  JointIndices(Get(r.s.skeletons, skinName))),
                   skinName, nodeInfo.instanceSkin[1].skeletons, 1),
          instanceSkins |-> Remember(r.instanceSkins, skinName)]

\* Lines 400-437.
RECURSIVE InstanceSkinsFrom(_, _)
InstanceSkinsFrom(r, i) ==
    IF r.s.thrown \/ i > Len(r.s.json.nodes) THEN r
    ELSE IF r.s.json.nodes[i].instanceSkin = <<>>
    THEN InstanceSkinsFrom(r, i + 1)
    ELSE InstanceSkinsFrom(
            InstanceSkin(r, r.s.json.nodes[i],
                         r.s.json.nodes[i].instanceSkin[1].skin), i + 1)

\* Lines 441-447 for one instanced skeleton: the path the function-wide
\* flag haveInvBindMatrices selects, then update().
UpdateSkeleton(skeleton, haveInvBindMatrices) ==
    [skeleton EXCEPT
        !.matrices = Append(@, IF haveInvBindMatrices
                               THEN "updateMatricesSubArrays"
                               ELSE "updateJointMatrices"),
        !.updates = @ + 1]

\* Lines 439-448; r = [s, instanceSkins].
RECURSIVE UpdateSkeletonsFrom(_, _)
UpdateSkeletonsFrom(r, i) ==
    IF r.s.thrown \/ i > Len(r.instanceSkins) THEN r.s
    ELSE UpdateSkeletonsFrom(
            [r EXCEPT !.s.skeletons[IndexOf(r.s.skeletons,
                                            r.instanceSkins[i])] =
                         UpdateSkeleton(@, r.s.haveInvBindMatrices)],
            i + 1)

ParseSkins(s) ==
    UpdateSkeletonsFrom(
        InstanceSkinsFrom(
            [s |-> CreateSkeletonsFrom(
                      [s EXCEPT !.haveInvBindMatrices = FALSE], 1),
             instanceSkins |-> <<>>], 1), 1)

\* -------------------------------------------------------- _parseAnimations
\* Lines 942-955: the component count of an animation parameter; `size` is
\* function-scoped, so a type the switch does not list leaves the previous
\* parameter's value (0 = undefined).
AnimationSize(acc, size) ==
    CASE acc.typeStr = "" /\ acc.typeNum = FLOAT_VEC2 -> 2
      [] acc.typeStr = "" /\ acc.typeNum = FLOAT_VEC3 -> 3
      [] acc.typeStr = "" /\ acc.typeNum = FLOAT_VEC4 -> 4
      [] acc.typeStr = "" /\ acc.typeNum = FLOAT -> 1
      [] OTHER -> size

\* Lines 939-956 for a parameter whose accessor `acc` exists; r = [s,
\* parameters].
DecodeParameter(r, name, acc, size) ==
    IF ~Has(r.s.json.bufferViews, acc.bufferView)
    THEN [r EXCEPT !.s = Throw(r.s, "940: bufferViewInfo.buffer")]
    ELSE Bind(Get(r.s.json.bufferViews, acc.bufferView), LAMBDA bv :
         Bind(NewView(r.s.buffers, "Float32Array", bv.buffer,
                      bv.byteOffset + acc.byteOffset, size * acc.count),
              LAMBDA nv :
         IF nv.err # ""
         THEN [r EXCEPT !.s = Throw([r.s EXCEPT !.animSize = size],
                                    "956: new Float32Array")]
         ELSE [s |-> [r.s EXCEPT !.animSize = size,
                                 !.decoded =
                                    Append(@, Decoded("animation", acc, bv,
                                                      size, nv.arr))],
               parameters |-> Put(r.parameters,
                                  [id |-> name, arr |-> nv.arr])]))

\* Lines 935-957 for one parameter of a track.
ParseParameter(r, param) ==
    IF ~Has(r.s.json.accessors, param.accessor)
    THEN [r EXCEPT !.s = Throw(r.s, "939: accessorInfo.bufferView")]
    ELSE Bind(Get(r.s.json.accessors, param.accessor), LAMBDA acc :
         DecodeParameter(r, param.id, acc, AnimationSize(acc, r.s.animSize)))

RECURSIVE ParseParametersFrom(_, _, _)
ParseParametersFrom(r, params, j) ==
    IF r.s.thrown \/ j > Len(params) THEN r
    ELSE ParseParametersFrom(ParseParameter(r, params[j]), params, j + 1)

\* Float multiplication by 1000 (NaN stays NaN).
Times1000(v) == IF v = NaN THEN NaN ELSE v * 1000

\* Component k (0..3) of quat.setAxisAngle((x, y, z), angle).  The value
\* is an opaque code of its arguments (sin(angle/2) * axis_k, or
\* cos(angle/2) for k = 3): negative, so never a source sample.
QuatComponent(k, axis, angle) ==
    IF angle = NaN \/ (k < 3 /\ axis[k + 1] = NaN) THEN NaN
    ELSE IF k < 3 THEN -(1 + angle + axis[k + 1] * (2^12))
    ELSE -(1 + angle)

\* Lines 975-982: sample i of the rotation array, read as axis and angle,
\* is overwritten by the quaternion.
ConvertSample(buffers, rotation, offset, axis, angle) ==
    WriteElem(
      WriteElem(
        WriteElem(
          WriteElem(buffers, rotation, offset, QuatComponent(0, axis, angle)),
          rotation, offset + 1, QuatComponent(1, axis, angle)),
        rotation, offset + 2, QuatComponent(2, axis, angle)),
      rotation, offset + 3, QuatComponent(3, axis, angle))

\* Lines 972-983, iteration i: TIME[i] *= 1000, then the rotation sample.
ConvertStep(buffers, time, rotation, i) ==
    Bind(WriteElem(buffers, time, i,
                   Times1000(ReadElem(buffers, time, i, NaN))), LAMBDA b :
         ConvertSample(b, rotation, i * 4,
                       [k \in 1..3 |-> ReadElem(b, rotation, i * 4 + k - 1,
                                                NaN)],
                       ReadElem(b, rotation, i * 4 + 3, NaN)))

\* Lines 971-984.
RECURSIVE ConvertRotationFrom(_, _, _, _)
ConvertRotationFrom(buffers, time, rotation, i) ==
    IF i >= time.len THEN buffers
    ELSE ConvertRotationFrom(ConvertStep(buffers, time, rotation, i),
                             time, rotation, i + 1)

\* parameters[name] || null
Channel(parameters, name) ==
    IF Has(parameters, name) THEN Get(parameters, name).arr ELSE NullArray

\* Lines 991-1000: the clip of one track.  life is TIME[TIME.length - 1],
\* absent (<<>>) when the time array is empty.
NewSamplerClip(buffers, parameters, targetId, targetNode, name, time) ==
    [id |-> targetId, name |-> name, target |-> targetNode,
     time |-> time,
     rotation |-> Channel(parameters, "rotation"),
     position |-> Channel(parameters, "translation"),
     scale |-> Channel(parameters, "scale"),
     life |-> IF time.len = 0 THEN <<>>
              ELSE <<ReadElem(buffers, time, time.len - 1, NaN)>>]

\* Lines 969-985: the buffers after the rotation loop, which runs only for
\* a track with a rotation parameter.
ConvertRotation(buffers, parameters) ==
    IF Has(parameters, "rotation")
    THEN ConvertRotationFrom(buffers, Get(parameters, "TIME").arr,
                             Get(parameters, "rotation").arr, 0)
    ELSE buffers

\* The clip of a target that already has one is kept.
StoreFirstClip(s, parameters, targetId, targetNode) ==
    IF targetNode = 0 THEN Throw(s, "992: targetNode.name")
    ELSE IF Has(s.clips, targetId) THEN s
    ELSE [s EXCEPT !.clips =
             Put(@, NewSamplerClip(s.buffers, parameters, targetId,
                                   targetNode, s.heap[targetNode].name,
                                   Get(parameters, "TIME").arr))]

\* Lines 991-1000 for a track with TIME and a channel; s is the state after
\* the rotation loop.
StoreClip(s, parameters, targetId, targetNode) ==
    IF targetNode = 0 THEN Throw(s, "992: targetNode.name")
    ELSE [s EXCEPT !.clips =
             Put(@, NewSamplerClip(s.buffers, parameters, targetId,
                                   targetNode, s.heap[targetNode].name,
                                   Get(parameters, "TIME").arr))]

\* Lines 959-1000; r = [s, parameters] as the parameter loop left it.
BuildClip(r, animationInfo) ==
    IF r.s.thrown THEN r.s
    ELSE IF ~Has(r.parameters, "TIME") \/ Len(animationInfo.channels) = 0
    THEN r.s
    ELSE StoreClip([r.s EXCEPT !.buffers = ConvertRotation(@, r.parameters)],
                   r.parameters, animationInfo.channels[1].target,
                   NodeRef(r.s, animationInfo.channels[1].target))

\* Lines 931-1001, one track.
ParseAnimation(s, animationInfo) ==
    BuildClip(ParseParametersFrom([s |-> s, parameters |-> <<>>],
                                  animationInfo.parameters, 1),
              animationInfo)

RECURSIVE ParseAnimationsFrom(_, _)
ParseAnimationsFrom(s, i) ==
    IF s.thrown \/ i > Len(s.json.animations) THEN s
    ELSE ParseAnimationsFrom(ParseAnimation(s, s.json.animations[i]), i + 1)

\* lib.clips = {} and the tracks in document order.
ParseAnimations(s) ==
    ParseAnimationsFrom(
        [s EXCEPT !.clips = <<>>, !.hasClips = TRUE, !.animSize = 0], 1)

\* --------------------------------------------------------- afterLoadBuffer
\* SkinningClip.addJointClip: the clip joins the composite, whose duration
\* becomes the larger of its own and the clip's (a clip without a final
\* time sample has no duration to contribute).
AddJointClip(skinningClip, clip) ==
    [skinningClip EXCEPT
        !.jointClips = Append(@, clip.id),
        !.life = IF clip.life = <<>> THEN @ ELSE Max(@, clip.life[1])]

\* Lines 244-246.
RECURSIVE AddJointClipsFrom(_, _, _)
AddJointClipsFrom(skinningClip, clips, i) ==
    IF i > Len(clips) THEN skinningClip
    ELSE AddJointClipsFrom(AddJointClip(skinningClip, clips[i]), clips, i + 1)

\* Lines 241-246: the composite clip, looping, holding every per-target clip.
NewSkinningClip(clips) ==
    AddJointClipsFrom([loop |-> TRUE, jointClips |-> <<>>, life |-> 0],
                      clips, 1)

\* The skeletons left without the composite.
KeepSkeletons(skeletons) == skeletons

\* Lines 248-251: the composite is attached to every skeleton of lib.
AttachClip(skeletons) ==
    [i \in 1..Len(skeletons) |->
        [skeletons[i] EXCEPT !.clips = Append(@, "skinningClip"),
                             !.relativeRootNode = RootRef]]

\* Lines 240-252; s is the state _parseAnimations returned.
AggregateClips(s) ==
    IF s.thrown \/ Len(s.clips) = 0 THEN s
    ELSE [s EXCEPT !.skinningClip = <<NewSkinningClip(s.clips)>>,
                   !.skeletons = AttachClip(@)]

\* Lines 216-219.
TexturesStage(s, o) ==
    IF o.includeMesh /\ o.includeTexture THEN ParseTextures(s) ELSE s

\* Line 220.
MaterialsStage(s, o) ==
    IF s.thrown \/ ~o.includeMesh THEN s ELSE ParseMaterials(s)

\* Line 221.
MeshesStage(s, o) ==
    IF s.thrown \/ ~o.includeMesh THEN s ELSE ParseMeshes(s)

\* Line 223.
NodesStage(s, o) == IF s.thrown THEN s ELSE ParseNodes(s, o)

\* Lines 225-230.
SceneStage(s) == IF s.thrown THEN s ELSE AttachScene(s)

\* Lines 232-234.
SkinsStage(s, o) ==
    IF s.thrown \/ ~o.includeMesh THEN s ELSE ParseSkins(s)

\* Lines 236-253.
AnimationsStage(s, o) ==
    IF s.thrown \/ ~o.includeAnimation THEN s
    ELSE AggregateClips(ParseAnimations(s))

\* Lines 215-269 up to the success event: the stages in order, each run
\* only if no earlier one threw.
AfterLoadBuffer(s, o) ==
    AnimationsStage(
      SkinsStage(
        SceneStage(
          NodesStage(
            MeshesStage(
              MaterialsStage(TexturesStage(s, o), o), o), o)), o), o)


\* ----------------------------------------------------------------- loader
VARIABLES
    opts,        \* the loader's properties (lines 111-134, rootNode)
    json,        \* the caller's document object
    jsonBefore,  \* the document as it was when parse was last called
    parses,      \* number of parse calls made so far
    pc,          \* latest parse call: "idle", "loading", "done", "thrown"
    loading,     \* the pending counter of the latest parse call
    xhr,         \* its buffer requests: [id, state], state "pending",
                 \* "loaded" or "failed"
    requests,    \* every buffer request it issued, in order
    lib,         \* its closure: lib tables, entities, function-scoped vars
    started,     \* how many times its afterLoadBuffer was entered
    events,      \* the events the loader triggered since that call
    returned,    \* the result that call returned (<<>> before any call)
    delivered    \* the argument of its success event (<<>> until triggered)

vars == <<opts, json, jsonBefore, parses, pc, loading, xhr, requests, lib,
          started, events, returned, delivered>>

\* lib[name]: the table object created at lines 179-188 of the parse call
\* s belongs to.  No stage assigns another object to these keys.
LibTable(s, name) == [table |-> name, call |-> s.gen]

\* The fields the returned result and the success event have in common.
ResultTables(s, o) ==
    [scene |-> IF o.hasRootNode THEN 0 ELSE RootRef,
     rootNode |-> IF o.hasRootNode THEN RootRef ELSE 0,
     cameras |-> LibTable(s, "cameras"),
     textures |-> LibTable(s, "textures"),
     materials |-> LibTable(s, "materials"),
     skeletons |-> LibTable(s, "skeletons"),
     meshes |-> LibTable(s, "meshes")]

\* A result whose tables are copies made for the caller.
CopiedResult(s, o) ==
    [f \in {"scene", "rootNode", "cameras", "textures", "materials",
            "skeletons", "meshes", "clip"} |->
        IF f = "clip" THEN "null"
        ELSE IF f \in {"scene", "rootNode"} THEN ResultTables(s, o)[f]
        ELSE [table |-> f, call |-> 0]]

\* Lines 271-280: what parse returns.
ReturnedResult(s, o) ==
    [f \in {"scene", "rootNode", "cameras", "textures", "materials",
            "skeletons", "meshes", "clip"} |->
        IF f = "clip" THEN "null" ELSE ResultTables(s, o)[f]]

\* Lines 255-268: the argument of the success event.  clips is lib.clips,
\* undefined unless _parseAnimations ran; clip is the composite or undefined.
SuccessResult(s, o) ==
    [f \in {"scene", "rootNode", "cameras", "textures", "materials",
            "skeletons", "meshes", "clips", "clip"} |->
        CASE f = "clip" -> IF s.skinningClip = <<>> THEN "undefined"
                           ELSE "skinningClip"
          [] f = "clips" -> IF s.hasClips THEN "lib.clips" ELSE "undefined"
          [] OTHER -> ResultTables(s, o)[f]]

DefaultOpts ==
    [includeMesh |-> TRUE, includeTexture |-> TRUE,
     includeAnimation |-> TRUE, includeCamera |-> TRUE,
     includeLight |-> TRUE, hasRootNode |-> FALSE]

\* The loader as constructed by default, or with one property changed.
OptionSets ==
    {DefaultOpts} \cup
    {[DefaultOpts EXCEPT ![f] = ~DefaultOpts[f]] : f \in DOMAIN DefaultOpts}

Init ==
    /\ opts \in OptionSets
    /\ json \in Documents
    /\ jsonBefore = json
    /\ parses = 0
    /\ pc = "idle"
    /\ loading = 0
    /\ xhr = <<>>
    /\ requests = <<>>
    /\ lib = NewState(json, 0, opts.hasRootNode)
    /\ started = 0
    /\ events = <<>>
    /\ returned = <<>>
    /\ delivered = <<>>

Pending == {i \in 1..Len(xhr) : xhr[i].state = "pending"}

\* parse(json), lines 175-213 and 271-280: one request per declared buffer,
\* each counted in `loading`; the callbacks run later.
Parse ==
    /\ parses < MaxParses
    /\ Pending = {}
    /\ parses' = parses + 1
    /\ jsonBefore' = json
    /\ loading' = Len(json.buffers)
    /\ xhr' = [i \in 1..Len(json.buffers) |->
                  [id |-> json.buffers[i].id, state |-> "pending"]]
    /\ requests' = [i \in 1..Len(json.buffers) |-> json.buffers[i].id]
    /\ lib' = NewState(json, parses + 1, opts.hasRootNode)
    /\ pc' = "loading"
    /\ started' = 0
    /\ events' = <<>>
    /\ returned' = <<ReturnedResult(NewState(json, parses + 1,
                                             opts.hasRootNode), opts)>>
    /\ delivered' = <<>>
    /\ UNCHANGED <<opts, json>>

\* Lines 203-206 / 208-211: loading--, and afterLoadBuffer when it is 0.
\* The callback runs the whole pipeline before it returns: the success
\* event is triggered unless an exception left the handler.
Complete(i, outcome, s) ==
    /\ xhr' = [xhr EXCEPT ![i].state = outcome]
    /\ loading' = loading - 1
    /\ IF loading - 1 = 0
       THEN \E r \in {AfterLoadBuffer(s, opts)} :
               /\ lib' = r
               /\ json' = r.json
               /\ started' = started + 1
               /\ pc' = IF r.thrown THEN "thrown" ELSE "done"
               /\ events' = IF r.thrown THEN events
                            ELSE Append(events, "success")
               /\ delivered' = IF r.thrown THEN delivered
                               ELSE <<SuccessResult(r, opts)>>
       ELSE /\ lib' = s
            /\ UNCHANGED <<json, started, pc, events, delivered>>
    /\ UNCHANGED <<opts, jsonBefore, parses, requests, returned>>

\* Lines 201-206: a fetch succeeds, its buffer is stored in lib.buffers.
FetchSuccess ==
    \E i \in Pending :
        Complete(i, "loaded",
                 [lib EXCEPT !.buffers =
                     Put(@, [id |-> xhr[i].id, words |-> FetchedWords])])

\* Lines 207-212: a fetch fails; nothing is stored and nothing triggered.
FetchFailure ==
    \E i \in Pending : Complete(i, "failed", lib)

Next == Parse \/ FetchSuccess \/ FetchFailure

Spec == Init /\ [][Next]_vars


\* ------------------------------------------------------------- properties
Failed == {i \in 1..Len(xhr) : xhr[i].state = "failed"}

\* Every request of the latest parse call has been answered.
AllAnswered == parses > 0 /\ Pending = {}

\* The mesh entities the latest parse call created.
MeshEntities == {e \in 1..Len(lib.heap) : lib.heap[e].kind = "Mesh"}

\* The document names, somewhere, an entry that does not exist.
Dangling(doc) ==
    \/ \E m \in 1..Len(doc.meshes) : \E p \in 1..Len(doc.meshes[m].primitives) :
          \/ ~Has(doc.materials, doc.meshes[m].primitives[p].material)
          \/ ~Has(doc.accessors, doc.meshes[m].primitives[p].indices)
          \/ \E a \in 1..Len(doc.meshes[m].primitives[p].attributes) :
                ~Has(doc.accessors,
                     doc.meshes[m].primitives[p].attributes[a].accessor)
    \/ \E a \in 1..Len(doc.accessors) :
          ~Has(doc.bufferViews, doc.accessors[a].bufferView)
    \/ \E n \in 1..Len(doc.nodes) :
          \/ \E c \in 1..Len(doc.nodes[n].children) :
                ~Has(doc.nodes, doc.nodes[n].children[c])
          \/ \E k \in 1..Len(doc.nodes[n].meshes) :
                \E j \in 1..Len(doc.nodes[n].meshes[k]) :
                   ~Has(doc.meshes, doc.nodes[n].meshes[k][j])
          \/ \E k \in 1..Len(doc.nodes[n].instanceSkin) :
                \E j \in 1..Len(doc.nodes[n].instanceSkin[k].sources) :
                   ~Has(doc.meshes, doc.nodes[n].instanceSkin[k].sources[j])
    \/ \E t \in 1..Len(doc.animations) :
          \E c \in 1..Len(doc.animations[t].channels) :
             ~Has(doc.nodes, doc.animations[t].channels[c].target)

\* C1: in a parse call of a document declaring N >= 1 buffers, whatever the
\* order and outcome of the N completions, afterLoadBuffer is started exactly
\* once, only after all N requests were answered, and the callback that
\* starts it runs it to the success event before any other callback runs.
PipelineRunsOnceToSuccess ==
    /\ started <= 1
    /\ started = 1 => Pending = {}
    /\ (AllAnswered /\ Len(xhr) >= 1) =>
          (started = 1 /\ pc = "done" /\ events = <<"success">>)

\* C2: in every parse call whose requests are all answered, the success
\* event is emitted, exactly once, whatever the number of buffers the
\* document declares, zero included.  The callback that answers the last
\* request runs the pipeline before it returns, so "eventually" is: in every
\* state where no request of the call is left pending.  Stated for the
\* documents without a flaw, as the caller passed them.
SuccessOnceAllAnswered ==
    (AllAnswered /\ jsonBefore \in {Doc(nb, "ok") : nb \in 0..MaxBuffers})
       => events = <<"success">>

\* C3: every buffer request that fails has one error event emitted for it.
ErrorEventPerFailure ==
    Cardinality({k \in 1..Len(events) : events[k] = "error"})
        = Cardinality(Failed)

\* C4: a failed request decrements the pending counter as a successful one
\* does, leaves its buffer's slot absent, is never issued again, and the
\* pipeline still runs and emits success once every request is answered.
FailureDegradesOnly ==
    Failed # {} =>
       /\ loading = Cardinality(Pending)
       /\ \A i \in Failed : ~Has(lib.buffers, xhr[i].id)
       /\ \A i, k \in 1..Len(requests) : requests[i] = requests[k] => i = k
       /\ Pending = {} => (pc = "done" /\ events = <<"success">>)

\* C5: for a document with a dangling reference the pipeline still runs to
\* its end and emits success.
DanglingReferenceSkipped ==
    (AllAnswered /\ Len(xhr) >= 1 /\ Dangling(jsonBefore)) =>
       (~lib.thrown /\ events = <<"success">>)

\* C6: parse leaves the document unchanged, so that a second parse of it
\* resolves the texture references as the first did: to textures of its own.
DocumentUnchanged ==
    /\ json = jsonBefore
    /\ \A m \in 1..Len(lib.materials) :
          lib.materials[m].diffuse.tag = "texture" =>
             lib.materials[m].diffuse.gen = lib.gen

\* C7: for every skin, the skeleton's joint list has one joint per declared
\* joint id, in order, and joint i has index i; binding nodes to the joints
\* leaves the list and the indices as they were created.
JointsIndexed ==
    \A k \in 1..Len(lib.skeletons) :
       /\ Has(json.skins, lib.skeletons[k].id)
       /\ Len(lib.skeletons[k].joints)
             = Len(Get(json.skins, lib.skeletons[k].id).joints)
       /\ \A i \in 1..Len(lib.skeletons[k].joints) :
             /\ lib.skeletons[k].joints[i].index = i - 1
             /\ lib.skeletons[k].joints[i].name
                   = Get(json.skins, lib.skeletons[k].id).joints[i]

\* A pipeline ended with a skeleton of two joints, both bound to nodes, the
\* second as the child of the first.
JointsBound ==
    /\ pc = "done"
    /\ \E k \in 1..Len(lib.skeletons) :
          /\ Len(lib.skeletons[k].joints) = 2
          /\ lib.skeletons[k].joints[1].node # 0
          /\ lib.skeletons[k].joints[2].node # 0
          /\ lib.skeletons[k].joints[2].parentIndex = 0
          /\ Len(lib.skeletons[k].roots) = 1

\* C8: every typed array decoded from an accessor starts at
\* bufferView.byteOffset + accessor.byteOffset, holds accessor.count times
\* the component count elements, and ends within its buffer.
ViewsWithinBounds ==
    \A d \in 1..Len(lib.decoded) :
       /\ lib.decoded[d].arr.len
             = lib.decoded[d].accessor.count * lib.decoded[d].size
       /\ lib.decoded[d].arr.buf = lib.decoded[d].bufferView.buffer
       /\ lib.decoded[d].arr.off
             = lib.decoded[d].bufferView.byteOffset
               + lib.decoded[d].accessor.byteOffset
       /\ Has(lib.buffers, lib.decoded[d].arr.buf)
       /\ lib.decoded[d].arr.off
            + lib.decoded[d].arr.len * Width(lib.decoded[d].arr.ctor)
             <= ByteLength(Get(lib.buffers, lib.decoded[d].arr.buf))

\* The durations of the per-target clips.
ClipLives == {lib.clips[i].life[1] : i \in {k \in 1..Len(lib.clips) :
                                              lib.clips[k].life # <<>>}}

\* C9: a pipeline that produced at least one per-target clip created one
\* composite clip: it holds every per-target clip, loops, is attached (once)
\* to every skeleton, and its duration is the largest of the clips'
\* durations; a pipeline that produced no clip created no composite.
CompositeClip ==
    pc = "done" =>
       IF Len(lib.clips) >= 1
       THEN /\ Len(lib.skinningClip) = 1
            /\ lib.skinningClip[1].loop
            /\ lib.skinningClip[1].jointClips
                  = [i \in 1..Len(lib.clips) |-> lib.clips[i].id]
            /\ \A k \in 1..Len(lib.skeletons) :
                  /\ lib.skeletons[k].clips = <<"skinningClip">>
                  /\ lib.skeletons[k].relativeRootNode = RootRef
            /\ \A l \in ClipLives : lib.skinningClip[1].life >= l
            /\ ClipLives # {} => lib.skinningClip[1].life \in ClipLives
       ELSE /\ lib.skinningClip = <<>>
            /\ \A k \in 1..Len(lib.skeletons) : lib.skeletons[k].clips = <<>>

\* A pipeline ended with two per-target clips of different durations and a
\* skeleton.
TwoClipsAggregated ==
    /\ pc = "done"
    /\ Len(lib.clips) = 2
    /\ lib.clips[1].life # <<>> /\ lib.clips[2].life # <<>>
    /\ lib.clips[1].life # lib.clips[2].life
    /\ Len(lib.skeletons) >= 1
    /\ lib.skinningClip # <<>>

\* The accessor has four components per element.
IsVec4(acc) ==
    \/ acc.componentType # 0 /\ acc.typeStr = "VEC4"
    \/ acc.componentType = 0 /\ acc.typeStr = "" /\ acc.typeNum = FLOAT_VEC4

\* The WEIGHT attributes of four components of the meshes created.
Weights ==
    UNION {{lib.heap[e].attrs[a] :
               a \in {n \in 1..Len(lib.heap[e].attrs) :
                         /\ lib.heap[e].attrs[n].semantic = "WEIGHT"
                         /\ IsVec4(lib.heap[e].attrs[n].accessor)}} :
           e \in MeshEntities}

\* C10: a WEIGHT attribute of four components is stored as an array of its
\* own of accessor.count * 3 values; components 0..2 of every vertex of the
\* source are components 0..2 of that vertex in it, the 4th is dropped, and
\* the words of the buffer the source views are as they were delivered.
WeightsCompacted ==
    \A w \in Weights :
       /\ w.value.buf = ""
       /\ w.value.len = w.accessor.count * 3
       /\ \A i \in 0..(w.accessor.count - 1) : \A k \in 0..2 :
             4 * i + k < w.source.len =>
                ReadElem(lib.buffers, w.value, 3 * i + k, NaN)
                   = ReadElem(lib.buffers, w.source, 4 * i + k, NaN)
       /\ \A j \in 0..(w.source.len - 1) :
             ReadElem(lib.buffers, w.source, j, NaN)
                = FetchedWords[(w.source.off \div 4) + j + 1]

\* A mesh was built with a WEIGHT attribute whose source view holds the two
\* vertices of four components the accessor declares.
WeightsDecoded ==
    \E w \in Weights :
       /\ w.accessor.count = 2
       /\ w.source.len = 8
       /\ w.value.len = 6

RECURSIVE Walked(_, _, _)
Walked(nodes, names, depth) ==
    IF depth = 0 THEN names
    ELSE Walked(nodes,
                names \cup {c \in {nodes[i].id : i \in 1..Len(nodes)} :
                               \E p \in names :
                                  /\ Has(nodes, p)
                                  /\ \E k \in 1..Len(Get(nodes, p).children) :
                                        Get(nodes, p).children[k] = c},
                depth - 1)

\* The index of the joint bound to the nearest proper ancestor of n, within
\* the walk from root, whose jointId names a joint of the skeleton; -1 when
\* there is none.
RECURSIVE NearestJointIndex(_, _, _, _, _)
NearestJointIndex(nodes, joints, root, n, depth) ==
    IF n = root \/ depth = 0 THEN -1
    ELSE LET p == CHOOSE q \in Walked(nodes, {root}, Len(nodes)) :
                     \E k \in 1..Len(Get(nodes, q).children) :
                        Get(nodes, q).children[k] = n
             j == JointsMap(joints, Get(nodes, p).jointId)
         IN IF j # 0 THEN joints[j].index
            ELSE NearestJointIndex(nodes, joints, root, p, depth - 1)

\* C12: after skin binding, every joint bound to a descriptor reached by
\* the walk from a skin root has as parentIndex the index of the joint of
\* the nearest proper ancestor, within the walk, whose jointId names a joint
\* of the skin, and -1 when there is none; a descriptor without a matching
\* jointId hands the index it inherited to its children.
ParentIndexFromNearestJoint ==
    (pc = "done" /\ ~lib.thrown /\ opts.includeMesh) =>
       \A i \in 1..Len(lib.json.nodes) :
          lib.json.nodes[i].instanceSkin # <<>> =>
             LET inst == lib.json.nodes[i].instanceSkin[1]
                 joints == Get(lib.skeletons, inst.skin).joints
             IN \A r \in 1..Len(inst.skeletons) :
                   \A n \in Walked(lib.json.nodes, {inst.skeletons[r]},
                                   Len(lib.json.nodes)) :
                      LET j == JointsMap(joints, Get(lib.json.nodes, n).jointId)
                      IN j # 0 =>
                            joints[j].parentIndex =
                               NearestJointIndex(lib.json.nodes, joints,
                                                 inst.skeletons[r], n,
                                                 Len(lib.json.nodes))

\* A joint was bound below a descriptor without a jointId: it took the
\* index of the joint two levels up.
JointBoundBelowUnmatched ==
    /\ pc = "done" /\ ~lib.thrown /\ opts.includeMesh
    /\ Has(lib.json.nodes, "mid")
    /\ Get(lib.json.nodes, "mid").jointId = ""
    /\ \E k \in 1..Len(lib.skeletons) :
          \E j \in 1..Len(lib.skeletons[k].joints) :
             /\ lib.skeletons[k].joints[j].node # 0
             /\ lib.skeletons[k].joints[j].parentIndex = 0

\* C13: in every clip, each time sample is the source sample (seconds, as
\* fetched) times 1000, and the clip's duration is its final time sample in
\* milliseconds, for every track with or without a rotation channel.
TimeInMilliseconds ==
    (pc = "done" /\ ~lib.thrown) =>
       \A c \in 1..Len(lib.clips) :
          LET time == lib.clips[c].time
          IN (time.buf # "" /\ time.len > 0) =>
                /\ \A k \in 0..(time.len - 1) :
                      ReadElem(lib.buffers, time, k, NaN)
                         = 1000 * FetchedWords[(time.off \div 4) + 1 + k]
                /\ lib.clips[c].life
                      = <<1000 * FetchedWords[(time.off \div 4) + time.len]>>

\* The skins some node descriptor instances.
InstancedSkins(nodes) ==
    {nodes[i].instanceSkin[1].skin :
        i \in {k \in 1..Len(nodes) : nodes[k].instanceSkin # <<>>}}

\* C14: each instanced skeleton recomputes its skin matrices by the path its
\* own skin selects (sub-arrays when the skin has inverse-bind data, joint
\* matrices when it has none), whatever the other skins hold, and is updated
\* exactly once.
RecomputedByOwnData ==
    (pc = "done" /\ ~lib.thrown /\ opts.includeMesh) =>
       \A k \in 1..Len(lib.skeletons) :
          lib.skeletons[k].id \in InstancedSkins(lib.json.nodes) =>
             /\ lib.skeletons[k].updates = 1
             /\ lib.skeletons[k].matrices =
                   <<IF Get(lib.json.skins,
                            lib.skeletons[k].id).inverseBindMatrices # <<>>
                     THEN "updateMatricesSubArrays"
                     ELSE "updateJointMatrices">>

MatrixPerJoint ==
    (pc = "done" /\ ~lib.thrown) =>
       \A k \in 1..Len(lib.skeletons) :
          Get(lib.json.skins, lib.skeletons[k].id).inverseBindMatrices # <<>>
             => /\ lib.skeletons[k].invBindPoseMatricesArray.len
                      = Len(lib.skeletons[k].joints) * 16
                /\ lib.skeletons[k].skinMatricesLength
                      = Len(lib.skeletons[k].joints) * 16

\* The light entity kinds.
LightKinds == {"PointLight", "SpotLight", "DirectionalLight"}

\* The entities of kind k in `kinds` that are children of the entity ref.
ChildrenOfKind(s, ref, kinds) ==
    {c \in 1..Len(s.heap) :
        s.heap[c].parent = ref /\ s.heap[c].kind \in kinds}

\* The entity stored for a node descriptor is the variant its fields select
\* by the precedence camera, lights, mesh, generic.
IsVariantOf(s, nodeInfo, ref) ==
    /\ ref # 0
    /\ IF nodeInfo.camera # <<>>
       THEN s.heap[ref].kind \in {"PerspectiveCamera", "OrthographicCamera"}
       ELSE IF nodeInfo.lights # <<>>
       THEN \/ s.heap[ref].kind \in LightKinds
            \/ /\ s.heap[ref].kind = "Node"
               /\ Cardinality(ChildrenOfKind(s, ref, LightKinds)) # 1
       ELSE IF nodeInfo.meshes # <<>> \/ nodeInfo.instanceSkin # <<>>
       THEN \/ s.heap[ref].kind = "Mesh"
            \/ /\ s.heap[ref].kind = "Node"
               /\ ChildrenOfKind(s, ref, {"Mesh"}) # {}
       ELSE s.heap[ref].kind = "Node"

\* C17: with every include flag on, each node descriptor yields one entity,
\* the variant chosen by the precedence camera > light > mesh > generic; two
\* descriptors have the same entity only when both became the same mesh.
OneVariantByPrecedence ==
    (pc = "done" /\ ~lib.thrown /\ opts = DefaultOpts) =>
       /\ \A i \in 1..Len(lib.json.nodes) :
             IsVariantOf(lib, lib.json.nodes[i],
                         NodeRef(lib, lib.json.nodes[i].id))
       /\ \A i, k \in 1..Len(lib.json.nodes) :
             (/\ i # k
              /\ NodeRef(lib, lib.json.nodes[i].id)
                    = NodeRef(lib, lib.json.nodes[k].id))
                => lib.heap[NodeRef(lib, lib.json.nodes[i].id)].kind = "Mesh"

\* C18: a node whose camera has a projection that is neither perspective nor
\* orthographic is warned about and becomes a generic transform node: its
\* entity is no camera and the cameras table has no entry for it.
UnsupportedCameraIsGeneric ==
    (pc = "done" /\ ~lib.thrown /\ opts.includeCamera) =>
       \A i \in 1..Len(lib.json.nodes) :
          LET nodeInfo == lib.json.nodes[i]
          IN (/\ nodeInfo.camera # <<>>
              /\ Get(lib.json.cameras, nodeInfo.camera[1]).projection
                    \notin {"perspective", "orthographic"})
                => /\ lib.warnings >= 1
                   /\ lib.heap[NodeRef(lib, nodeInfo.id)].kind = "Node"
                   /\ ~Has(lib.cameras, nodeInfo.name)

\* The entity that named the entity e as a child last: the root when a node
\* of the active scene is e, else the entity of the last descriptor, in
\* document order, with e among its children; 0 when nothing names e.
LastParent(s, e) ==
    LET sceneNodes == Get(s.json.scenes, s.json.scene).nodes
        namers == {i \in 1..Len(s.json.nodes) :
                      \E j \in 1..Len(s.json.nodes[i].children) :
                         NodeRef(s, s.json.nodes[i].children[j]) = e}
    IN IF \E k \in 1..Len(sceneNodes) : NodeRef(s, sceneNodes[k]) = e
       THEN RootRef
       ELSE IF namers = {} THEN 0
       ELSE NodeRef(s, s.json.nodes[CHOOSE i \in namers :
                                      \A k \in namers : k <= i].id)

\* How many times the entity e is in the children list of the entity p.
TimesChildOf(s, p, e) ==
    Cardinality({j \in 1..Len(s.heap[p].children) :
                    s.heap[p].children[j] = e})

\* C19: after the hierarchy is built and the scene's nodes are attached to
\* the root, every entity has at most one parent and is in the children
\* list of that parent, once, and of no other entity; an entity named as a
\* child by several parents (or by a parent and the scene) is under the one
\* that named it last.
LastParentKeepsChild ==
    (pc = "done" /\ ~lib.thrown) =>
       \A e \in 1..Len(lib.heap) :
          /\ \A p \in 1..Len(lib.heap) :
                TimesChildOf(lib, p, e)
                   = (IF lib.heap[e].parent = p THEN 1 ELSE 0)
          /\ LastParent(lib, e) # 0 =>
                lib.heap[e].parent = LastParent(lib, e)

\* A node named as a child by two descriptors ended under the second one
\* and left the children of the first.
SharedChildMoved ==
    /\ pc = "done" /\ ~lib.thrown
    /\ \E i, k \in 1..Len(lib.json.nodes) :
          /\ i < k
          /\ \E c \in 1..Len(lib.json.nodes) :
                LET child == lib.json.nodes[c].id
                    has(n) == \E j \in 1..Len(lib.json.nodes[n].children) :
                                 lib.json.nodes[n].children[j] = child
                IN /\ has(i) /\ has(k)
                   /\ NodeRef(lib, lib.json.nodes[i].id)
                         # NodeRef(lib, lib.json.nodes[k].id)
                   /\ lib.heap[NodeRef(lib, child)].parent
                         = NodeRef(lib, lib.json.nodes[k].id)
                   /\ TimesChildOf(lib, NodeRef(lib, lib.json.nodes[i].id),
                                   NodeRef(lib, child)) = 0

\* The track declares a parameter of that name.
HasParameter(animationInfo, name) ==
    \E p \in 1..Len(animationInfo.parameters) :
       animationInfo.parameters[p].id = name

\* The tracks (positions in document order) that have a TIME parameter and
\* at least one channel, the first of which targets targetId.
TracksOf(animations, targetId) ==
    {a \in 1..Len(animations) :
        /\ HasParameter(animations[a], "TIME")
        /\ Len(animations[a].channels) >= 1
        /\ animations[a].channels[1].target = targetId}

\* The byte offset in its buffer of the TIME accessor of a track.
TimeOffset(doc, animationInfo) ==
    LET acc == Get(doc.accessors,
                   Get(animationInfo.parameters, "TIME").accessor)
    IN Get(doc.bufferViews, acc.bufferView).byteOffset + acc.byteOffset

\* C20: the per-target clip table holds exactly one clip for each target id
\* that is the first-channel target of a track with a TIME parameter and a
\* channel, built from the last such track in document order (its TIME
\* array, its channels); tracks without TIME or without channels leave the
\* table as it is.
OneClipPerTarget ==
    (pc = "done" /\ ~lib.thrown /\ opts.includeAnimation) =>
       /\ \A c, d \in 1..Len(lib.clips) :
             lib.clips[c].id = lib.clips[d].id => c = d
       /\ \A n \in 1..Len(lib.json.nodes) :
             Has(lib.clips, lib.json.nodes[n].id)
                <=> TracksOf(lib.json.animations, lib.json.nodes[n].id) # {}
       /\ \A c \in 1..Len(lib.clips) :
             LET tracks == TracksOf(lib.json.animations, lib.clips[c].id)
             IN /\ tracks # {}
                /\ LET last == lib.json.animations[
                                  CHOOSE a \in tracks :
                                     \A b \in tracks : b <= a]
                   IN /\ (lib.clips[c].rotation # NullArray)
                            <=> HasParameter(last, "rotation")
                      /\ (lib.clips[c].position # NullArray)
                            <=> HasParameter(last, "translation")
                      /\ (lib.clips[c].scale # NullArray)
                            <=> HasParameter(last, "scale")
                      /\ lib.clips[c].time.buf # "" =>
                            lib.clips[c].time.off
                               = TimeOffset(lib.json, last)
                      /\ lib.clips[c].target = NodeRef(lib, lib.clips[c].id)

\* Two tracks with TIME and a channel had the same first target, and a track
\* without channels was dropped: the one clip of that target is the second
\* track's.
LaterTrackOverwrote ==
    /\ pc = "done" /\ ~lib.thrown /\ opts.includeAnimation
    /\ \E c \in 1..Len(lib.clips) :
          /\ Cardinality(TracksOf(lib.json.animations, lib.clips[c].id)) = 2
          /\ lib.clips[c].position.len > 0
          /\ lib.clips[c].rotation = NullArray
    /\ \E a \in 1..Len(lib.json.animations) :
          /\ HasParameter(lib.json.animations[a], "TIME")
          /\ lib.json.animations[a].channels = <<>>

\* C21: after the scene graph is built, distinct node ids have distinct
\* entities, and the entity of a descriptor carries that descriptor's name
\* and, when the descriptor has a transform, that descriptor's transform.
EntityPerDescriptor ==
    (pc = "done" /\ ~lib.thrown) =>
       /\ \A i, k \in 1..Len(lib.json.nodes) :
             NodeRef(lib, lib.json.nodes[i].id)
                = NodeRef(lib, lib.json.nodes[k].id) => i = k
       /\ \A i \in 1..Len(lib.json.nodes) :
             LET nodeInfo == lib.json.nodes[i]
                 ref == NodeRef(lib, nodeInfo.id)
             IN /\ ref # 0
                /\ lib.heap[ref].name = nodeInfo.name
                /\ lib.heap[ref].xform
                      = (IF nodeInfo.xform = "none" THEN ""
                         ELSE nodeInfo.id)

\* C22: after skin binding, every joint in skeleton.roots is one of the
\* joints of skeleton.joints, and no joint is in roots twice.
RootsAreJoints ==
    (pc = "done" /\ ~lib.thrown) =>
       \A k \in 1..Len(lib.skeletons) :
          LET roots == lib.skeletons[k].roots
              joints == lib.skeletons[k].joints
          IN /\ \A r \in 1..Len(roots) :
                   /\ ~roots[r].synthetic
                   /\ roots[r].index \in 0..(Len(joints) - 1)
                   /\ joints[roots[r].index + 1].name = roots[r].name
             /\ \A a, b \in 1..Len(roots) :
                   (roots[a].index = roots[b].index
                      /\ roots[a].name = roots[b].name) => a = b

\* C23: every mesh attribute is decoded with the element type and the
\* component count its own accessor descriptor gives, as if nothing had been
\* decoded before it.
LayoutFromOwnAccessor ==
    \A d \in 1..Len(lib.decoded) :
       lib.decoded[d].site = "attribute" =>
          /\ lib.decoded[d].size
                = AttributeLayout(lib.decoded[d].accessor, 0, "").size
          /\ lib.decoded[d].arr.ctor
                = AttributeLayout(lib.decoded[d].accessor, 0, "").ctor

====
